---- MODULE Spec2Model ----
(***************************************************************************)
(* GpuScan (pg_strom, src/gpuscan.c): classification of scan qualifiers    *)
(* into device and host groups, the cost estimate of the GpuScan path, the *)
(* generation of the OpenCL kernel source, and the executor callbacks of   *)
(* the custom plan node.                                                   *)
(***************************************************************************)
EXTENDS Integers, Sequences, FiniteSets, TLC

(***************************************************************************)
(* Bounds of the model.                                                    *)
(***************************************************************************)
MaxQuals == 2        \* longest baserel->baserestrictinfo list
MaxTuples == 2       \* largest baserel->tuples
MaxPages == 1        \* baserel->pages of a relation that is not empty

(***************************************************************************)
(* Expression nodes.  Every node is a record of the same shape:            *)
(*   tag  : "Const" | "Param" | "Var" | "OpExpr"                           *)
(*   type : consttype / paramtype / vartype / opresulttype                 *)
(*   val  : constvalue / paramid / varattno (0 for an OpExpr)              *)
(*   op   : the operator of an OpExpr ("" otherwise)                       *)
(*   args : the operands of an OpExpr                                      *)
(***************************************************************************)
MkConst(type, value) ==
    [tag |-> "Const", type |-> type, val |-> value, op |-> "", args |-> <<>>]
MkParam(type, paramid) ==
    [tag |-> "Param", type |-> type, val |-> paramid, op |-> "", args |-> <<>>]
MkVar(type, varattno) ==
    [tag |-> "Var", type |-> type, val |-> varattno, op |-> "", args |-> <<>>]
MkOpExpr(opname, type, operands) ==
    [tag |-> "OpExpr", type |-> type, val |-> 0, op |-> opname, args |-> operands]

\* The clauses the planner may hand over in baserel->baserestrictinfo.
ClauseCatalog ==
    << MkOpExpr(">", "bool", <<MkVar("int4", 1), MkConst("int4", 5)>>),      \* colA > 5
       MkOpExpr("like", "bool", <<MkVar("text", 2), MkConst("text", 1)>>),   \* colB LIKE '%x%'
       MkOpExpr("=", "bool", <<MkVar("int4", 1), MkConst("int4", 7)>>),      \* colA = 7
       MkOpExpr(">", "bool", <<MkVar("float8", 3), MkParam("float8", 1)>>),  \* colC > $1
       MkOpExpr("=", "bool", <<MkVar("text", 2), MkConst("text", 1)>>),      \* colB = '%x%'
       MkOpExpr(">", "bool", <<MkOpExpr("+", "int4",
                                        <<MkVar("int4", 1), MkConst("int4", 5)>>),
                               MkVar("int4", 6)>>),                          \* colA + 5 > colF
       MkOpExpr("=", "bool", <<MkOpExpr("+", "int4",
                                        <<MkVar("int4", 1), MkVar("numeric", 4)>>),
                               MkConst("int4", 7)>>) >>                      \* colA + colD = 7, numeric colD

\* Selectivity of each catalog clause, in halves (0, 1/2 or 1).
ClauseSelHalves == <<1, 1, 0, 2, 1, 1, 0>>

(***************************************************************************)
(* Device type / function catalog (pgstrom_devtype_lookup and the function *)
(* lookup used by the code generator).                                     *)
(***************************************************************************)
DevTypes == {"bool", "int4", "float8", "text"}
DevVarlenaTypes == {"text"}
DevFuncs == {">", "=", "+"}

pgstrom_devtype_lookup(type) ==
    IF type \in DevTypes
    THEN [found |-> TRUE, type_ident |-> type, is_varlena |-> type \in DevVarlenaTypes]
    ELSE [found |-> FALSE, type_ident |-> "", is_varlena |-> FALSE]

\* Extra libraries a device function needs (context->extra_flags).
DevFuncFlags(opname, argtype) ==
    IF opname = "=" /\ argtype = "text" THEN {"textlib"} ELSE {}

RECURSIVE pgstrom_codegen_available_expression(_)
pgstrom_codegen_available_expression(node) ==
    /\ pgstrom_devtype_lookup(node.type).found
    /\ (node.tag = "OpExpr" => node.op \in DevFuncs)
    /\ \A i \in 1..Len(node.args) : pgstrom_codegen_available_expression(node.args[i])

RECURSIVE pull_varattnos(_, _)
pull_varattnos(node, attrs) ==
    IF node.tag = "Var" THEN attrs \cup {node.val}
    ELSE IF Len(node.args) = 0 THEN attrs
    ELSE LET F[i \in 0..Len(node.args)] ==
                IF i = 0 THEN attrs ELSE pull_varattnos(node.args[i], F[i - 1])
         IN F[Len(node.args)]

RECURSIVE pull_varattnos_list(_, _)
pull_varattnos_list(nodes, attrs) ==
    IF nodes = <<>> THEN attrs
    ELSE pull_varattnos_list(Tail(nodes), pull_varattnos(Head(nodes), attrs))

(***************************************************************************)
(* gpuscan_add_scan_path: the classification loop.                         *)
(***************************************************************************)
EmptyQuals == [dev_quals |-> <<>>, host_quals |-> <<>>,
               dev_attrs |-> {}, host_attrs |-> {}]

ClassifyStepSwapped(acc, rinfo) ==
    IF pgstrom_codegen_available_expression(rinfo.clause)
    THEN [acc EXCEPT !.host_attrs = pull_varattnos(rinfo.clause, @),
                     !.host_quals = Append(@, rinfo)]
    ELSE [acc EXCEPT !.dev_attrs = pull_varattnos(rinfo.clause, @),
                     !.dev_quals = Append(@, rinfo)]

ClassifyStepPrepend(acc, rinfo) ==
    IF pgstrom_codegen_available_expression(rinfo.clause)
    THEN [acc EXCEPT !.dev_attrs = pull_varattnos(rinfo.clause, @),
                     !.dev_quals = <<rinfo>> \o @]
    ELSE [acc EXCEPT !.host_attrs = pull_varattnos(rinfo.clause, @),
                     !.host_quals = Append(@, rinfo)]

ClassifyStep(acc, rinfo) ==
    IF pgstrom_codegen_available_expression(rinfo.clause)
    THEN [acc EXCEPT !.dev_attrs = pull_varattnos(rinfo.clause, @),
                     !.dev_quals = Append(@, rinfo)]
    ELSE [acc EXCEPT !.host_attrs = pull_varattnos(rinfo.clause, @),
                     !.host_quals = Append(@, rinfo)]

RECURSIVE ClassifyLoop(_, _)
ClassifyLoop(acc, restrictinfo) ==
    IF restrictinfo = <<>> THEN acc
    ELSE ClassifyLoop(ClassifyStep(acc, Head(restrictinfo)), Tail(restrictinfo))

ClassifyQuals(baserestrictinfo, reltargetlist) ==
    LET looped == ClassifyLoop(EmptyQuals, baserestrictinfo)
    IN [looped EXCEPT !.host_attrs = pull_varattnos_list(reltargetlist, @)]

(***************************************************************************)
(* Cost arithmetic.  A Cost is kept exactly, scaled by CostUnit, so that   *)
(* the division by 100 and the product with a selectivity (a multiple of   *)
(* 1/SelDen) lose nothing.  Values beyond 32-bit integers (disable_cost)   *)
(* are kept as two limbs, hi * Limb + lo.                                  *)
(***************************************************************************)
SelDen == 2 ^ MaxQuals
CostUnit == 100 * SelDen
Limb == 10 ^ 9

Fx(n) == n * CostUnit
CostNorm(hi, lo) == [hi |-> hi + (lo \div Limb), lo |-> lo % Limb]
CostOfFx(x) == CostNorm(0, x)
CostAdd(a, b) == CostNorm(a.hi + b.hi, a.lo + b.lo)
CostLE(a, b) == a.hi < b.hi \/ (a.hi = b.hi /\ a.lo <= b.lo)
CostLT(a, b) == a.hi < b.hi \/ (a.hi = b.hi /\ a.lo < b.lo)

\* disable_cost is 1.0e10
disable_cost == [hi |-> 10 * CostUnit, lo |-> 0]
DevStartupCost == 10000
DevParallelism == 100

RECURSIVE CountOps(_)
CountOps(node) ==
    LET F[i \in 0..Len(node.args)] ==
            IF i = 0 THEN 0 ELSE F[i - 1] + CountOps(node.args[i])
    IN (IF node.tag = "OpExpr" THEN 1 ELSE 0) + F[Len(node.args)]

\* cost_qual_eval: sum of the evaluation costs of the clauses of a list;
\* every operator charges cpu_operator_cost per tuple, nothing at startup.
RECURSIVE cost_qual_eval(_, _)
cost_qual_eval(quals, guc) ==
    IF quals = <<>> THEN [startup |-> 0, per_tuple |-> 0]
    ELSE LET rest == cost_qual_eval(Tail(quals), guc)
         IN [startup |-> rest.startup,
             per_tuple |-> rest.per_tuple
                           + Fx(guc.cpu_operator_cost) * CountOps(Head(quals).clause)]

\* clauselist_selectivity: product of the selectivities of the clauses, 1.0
\* for an empty list; the result is in units of 1/SelDen.
RECURSIVE clauselist_selectivity(_)
clauselist_selectivity(quals) ==
    IF quals = <<>> THEN SelDen
    ELSE (clauselist_selectivity(Tail(quals)) * Head(quals).sel_halves) \div 2

MulSel(x, sel) == (x * sel) \div SelDen

(***************************************************************************)
(* cost_gpuscan                                                            *)
(***************************************************************************)
StartupCostNoPenalty(guc, dev_startup, host_startup) ==
    CostOfFx(dev_startup + host_startup)

StartupCost(guc, dev_startup, host_startup) ==
    LET startup_cost == IF ~guc.enable_gpuscan THEN disable_cost ELSE CostOfFx(0)
    IN CostAdd(startup_cost, CostOfFx(dev_startup + host_startup))

RunCostDecreasing(spc_seq_page_cost, pages, tuples, gpu_per_tuple, cpu_per_tuple, dev_sel) ==
    Fx(spc_seq_page_cost) * pages
    + gpu_per_tuple * (MaxTuples + 1 - tuples)
    + MulSel(cpu_per_tuple, dev_sel) * tuples

RunCostPagesOnly(spc_seq_page_cost, pages, tuples, gpu_per_tuple, cpu_per_tuple, dev_sel) ==
    Fx(spc_seq_page_cost) * pages

RunCost(spc_seq_page_cost, pages, tuples, gpu_per_tuple, cpu_per_tuple, dev_sel) ==
    Fx(spc_seq_page_cost) * pages
    + (gpu_per_tuple * tuples + MulSel(cpu_per_tuple, dev_sel) * tuples)

cost_gpuscan(guc, baserel, param_info, dev_quals, host_quals) ==
    LET rows == IF ~param_info.isnull THEN param_info.ppi_rows ELSE baserel.rows
        dev_cost0 == cost_qual_eval(dev_quals, guc)
        dev_sel == clauselist_selectivity(dev_quals)
        dev_cost == [startup |-> dev_cost0.startup + Fx(DevStartupCost),
                     per_tuple |-> dev_cost0.per_tuple \div DevParallelism]
        host_cost0 == cost_qual_eval(host_quals, guc)
        param_cost == cost_qual_eval(param_info.ppi_clauses, guc)
        host_cost == IF ~param_info.isnull
                     THEN [startup |-> host_cost0.startup + param_cost.startup,
                           per_tuple |-> host_cost0.per_tuple + param_cost.per_tuple]
                     ELSE host_cost0
        startup_cost == StartupCost(guc, dev_cost.startup, host_cost.startup)
        cpu_per_tuple == Fx(guc.cpu_tuple_cost) + host_cost.per_tuple
        gpu_per_tuple == Fx(guc.cpu_tuple_cost) \div DevParallelism + dev_cost.per_tuple
        run_cost == RunCost(baserel.spc_seq_page_cost, baserel.pages, baserel.tuples,
                            gpu_per_tuple, cpu_per_tuple, dev_sel)
    IN [rows |-> rows,
        startup_cost |-> startup_cost,
        total_cost |-> CostAdd(startup_cost, CostOfFx(run_cost))]

(***************************************************************************)
(* pgstrom_codegen_expression: lowers the conjunction of the device        *)
(* qualifiers, collecting the distinct Const/Param nodes (used_params) and *)
(* the distinct Var nodes (used_vars) in first-occurrence order.           *)
(***************************************************************************)
EmptyContext == [used_params |-> <<>>, used_vars |-> <<>>, extra_flags |-> {}]

\* 1-based position of the first entry equal to x, 0 when there is none.
ListIndex(list, x) ==
    IF \E i \in 1..Len(list) : list[i] = x
    THEN CHOOSE i \in 1..Len(list) : list[i] = x /\ \A j \in 1..(i - 1) : list[j] # x
    ELSE 0

CodeRef(macro, index) ==
    [tag |-> macro, type |-> "", val |-> index, op |-> "", args |-> <<>>]

RECURSIVE codegen_node(_, _)
codegen_node(node, context) ==
    IF node.tag \in {"Const", "Param"}
    THEN LET at == ListIndex(context.used_params, node)
         IN IF at > 0
            THEN [context |-> context, code |-> CodeRef("KPARAM", at - 1)]
            ELSE [context |-> [context EXCEPT !.used_params = Append(@, node)],
                  code |-> CodeRef("KPARAM", Len(context.used_params))]
    ELSE IF node.tag = "Var"
    THEN LET at == ListIndex(context.used_vars, node)
         IN IF at > 0
            THEN [context |-> context, code |-> CodeRef("KVAR", at - 1)]
            ELSE [context |-> [context EXCEPT !.used_vars = Append(@, node)],
                  code |-> CodeRef("KVAR", Len(context.used_vars))]
    ELSE LET F[i \in 0..Len(node.args)] ==
                 IF i = 0 THEN [context |-> context, codes |-> <<>>]
                 ELSE LET sub == codegen_node(node.args[i], F[i - 1].context)
                      IN [context |-> sub.context,
                          codes |-> Append(F[i - 1].codes, sub.code)]
             done == F[Len(node.args)]
             flags == IF Len(node.args) > 0
                      THEN DevFuncFlags(node.op, node.args[1].type) ELSE {}
         IN [context |-> [done.context EXCEPT !.extra_flags = @ \cup flags],
             code |-> [tag |-> "pgfn", type |-> node.type, val |-> 0,
                       op |-> node.op, args |-> done.codes]]

pgstrom_codegen_expression(dev_quals, context) ==
    LET F[i \in 0..Len(dev_quals)] ==
            IF i = 0 THEN [context |-> context, codes |-> <<>>]
            ELSE LET sub == codegen_node(dev_quals[i].clause, F[i - 1].context)
                 IN [context |-> sub.context,
                     codes |-> Append(F[i - 1].codes, sub.code)]
        done == F[Len(dev_quals)]
    IN [context |-> done.context,
        code |-> [tag |-> "pgfn", type |-> "bool", val |-> 0,
                  op |-> "and", args |-> done.codes]]

(***************************************************************************)
(* gpuscan_codegen_quals: the macro definitions and the column array of    *)
(* the generated kernel source.                                            *)
(***************************************************************************)
NullSource == [isnull |-> TRUE, defines |-> <<>>,
               array_name |-> "", array_elems |-> <<>>,
               expr_code |-> CodeRef("", 0), kernels |-> <<>>]

\* An identifier used as an operand in a kernel body, and a use of the macro
\* KPARAM_<index> or KVAR_<index>.
Ident(name) == [kind |-> "ident", name |-> name, index |-> 0]
MacroUse(macro, index) == [kind |-> "macro", name |-> macro, index |-> index]

\* The macros the lowered expression (the "%s" of the format) refers to.
RECURSIVE MacroUses(_)
MacroUses(code) ==
    IF code.tag \in {"KPARAM", "KVAR"} THEN {MacroUse(code.tag, code.val)}
    ELSE UNION {MacroUses(code.args[i]) : i \in 1..Len(code.args)}

\* The three kernel functions of the format string: their parameters, their
\* local variables, the identifiers their bodies use as operands, and the
\* array handed to kern_row_to_column[_prep] as the column list.
EntryPoints(expr_code) ==
    << [name |-> "gpuscan_qual_cs",
        args |-> {"gpuscan", "kparams", "kcs", "toast", "local_workmem"},
        locals |-> {"rc", "errcode"},
        operands |-> {Ident("local_workmem"), Ident("kcs"), Ident("rc"),
                      Ident("gpuscan")} \cup MacroUses(expr_code),
        projection |-> ""],
       [name |-> "gpuscan_qual_rs_prep",
        args |-> {"krs", "kcs"},
        locals |-> {},
        operands |-> {Ident("krs"), Ident("kcs"), Ident("used_vars")},
        projection |-> "used_vars"],
       [name |-> "gpuscan_qual_rs",
        args |-> {"gpuscan", "kparams", "krs", "kcs", "local_workmem"},
        locals |-> {},
        operands |-> {Ident("krs"), Ident("kcs"), Ident("used_vars"),
                      Ident("local_workmem"), Ident("gpuscan_qual_cs"),
                      Ident("gpuscan"), Ident("kparams")},
        projection |-> "used_vars"] >>

\* "#define KPARAM_<index>\tpg_<type_ident>_param(kparams,<index>)\n"
KparamDefineSlotZero(index, node) ==
    [macro |-> "KPARAM", index |-> index, accessor |-> "param",
     type_ident |-> pgstrom_devtype_lookup(node.type).type_ident,
     buffer |-> "kparams", toast |-> FALSE, slot |-> 0]

KparamDefine(index, node) ==
    [macro |-> "KPARAM", index |-> index, accessor |-> "param",
     type_ident |-> pgstrom_devtype_lookup(node.type).type_ident,
     buffer |-> "kparams", toast |-> FALSE, slot |-> index]

\* "#define KVAR_<index>\tpg_<type_ident>_vref(kcs,[toast,]<index>,get_global_id(0))\n"
KvarDefine(index, var) ==
    LET dtype == pgstrom_devtype_lookup(var.type)
    IN [macro |-> "KVAR", index |-> index, accessor |-> "vref",
        type_ident |-> dtype.type_ident,
        buffer |-> "kcs", toast |-> dtype.is_varlena, slot |-> index]

gpuscan_codegen_quals(dev_quals) ==
    IF dev_quals = <<>>
    THEN [kern_source |-> NullSource, context |-> EmptyContext]
    ELSE LET lowered == pgstrom_codegen_expression(dev_quals, EmptyContext)
             context == lowered.context
             params == [i \in 1..Len(context.used_params) |->
                            KparamDefine(i - 1, context.used_params[i])]
             vars == [i \in 1..Len(context.used_vars) |->
                          KvarDefine(i - 1, context.used_vars[i])]
         IN [kern_source |->
                 [isnull |-> FALSE,
                  defines |-> params \o vars,
                  array_name |-> "pg_used_vars",
                  array_elems |-> [i \in 1..Len(context.used_vars) |->
                                       context.used_vars[i].val],
                  expr_code |-> lowered.code,
                  kernels |-> EntryPoints(lowered.code)],
             context |-> context]

(***************************************************************************)
(* gpuscan_create_plan                                                     *)
(***************************************************************************)
\* order_qual_clauses: stable sort by evaluation cost, cheapest first.
RECURSIVE order_qual_clauses(_)
order_qual_clauses(quals) ==
    IF quals = <<>> THEN <<>>
    ELSE LET cost(i) == CountOps(quals[i].clause)
             pick == CHOOSE i \in 1..Len(quals) :
                        /\ \A j \in 1..Len(quals) : cost(i) <= cost(j)
                        /\ \A j \in 1..(i - 1) : cost(j) > cost(i)
             rest == [k \in 1..(Len(quals) - 1) |->
                          IF k < pick THEN quals[k] ELSE quals[k + 1]]
         IN <<quals[pick]>> \o order_qual_clauses(rest)

\* extract_actual_clauses: the bare expression of every RestrictInfo.
extract_actual_clauses(quals) == [i \in 1..Len(quals) |-> quals[i].clause]

(***************************************************************************)
(* State.                                                                  *)
(***************************************************************************)
VARIABLES
    guc,            \* enable_gpuscan and the planner's cost settings
    baserel,        \* RelOptInfo of the scanned relation
    param_info,     \* ParamPathInfo of the path (isnull when there is none)
    pathnode,       \* GpuScanPath built by gpuscan_add_scan_path
    gsplan,         \* GpuScanPlan built by gpuscan_create_plan
    gss,            \* GpuScanState filled in by gpuscan_begin
    devprog_cache,  \* device programs registered by pgstrom_get_devprog_key
    acquired,       \* resources acquired so far, in acquisition order
    released,       \* handles released so far, in release order
    phase,          \* "init", "path", "plan", "scan", "ended", "error"
    error,          \* message of the error raised, "" when none
    result,         \* what the last executor callback returned
    plancopy,       \* GpuScanPlan built by gpuscan_copy_plan
    kern_run        \* the last execution of gpuscan_qual_cs by one work-item

vars == <<guc, baserel, param_info, pathnode, gsplan, gss, devprog_cache,
          acquired, released, phase, error, result, plancopy, kern_run>>

GpuScanMode_HeapOnlyScan == 3

MkRestrictInfo(rid, k) ==
    [rid |-> rid, clause |-> ClauseCatalog[k], sel_halves |-> ClauseSelHalves[k]]

QualLists ==
    UNION {[1..n -> 1..Len(ClauseCatalog)] : n \in 0..MaxQuals}

RestrictInfoLists ==
    {[i \in 1..Len(ks) |-> MkRestrictInfo(i, ks[i])] : ks \in QualLists}

NoParamInfo == [isnull |-> TRUE, ppi_rows |-> 0, ppi_clauses |-> <<>>]

ParamInfos ==
    {NoParamInfo,
     [isnull |-> FALSE, ppi_rows |-> 1, ppi_clauses |-> <<MkRestrictInfo(0, 4)>>]}

NoPath == [valid |-> FALSE, rows |-> 0,
           startup_cost |-> CostOfFx(0), total_cost |-> CostOfFx(0),
           dev_quals |-> <<>>, host_quals |-> <<>>,
           dev_attrs |-> {}, host_attrs |-> {}]

NoPlan == [valid |-> FALSE, qual |-> <<>>, scanrelid |-> 0,
           kern_source |-> NullSource, extra_flags |-> {},
           used_params |-> <<>>, used_vars |-> <<>>, dev_clauses |-> <<>>,
           dev_attrs |-> {}, host_attrs |-> {}]

NoScanState == [plan |-> "none", scan_mode |-> 0, shmcontext |-> 0, mqueue |-> 0,
                parambuf |-> 0, dprog_key |-> 0]

\* pg_bool_t
PgBool == [isnull : BOOLEAN, value : {0, 1}]

NoKernRun == [ran |-> FALSE, gid |-> 0, nrows |-> 0, evaluated |-> FALSE,
              rc |-> [isnull |-> FALSE, value |-> 0], status |-> ""]

Init ==
    /\ guc \in [enable_gpuscan : BOOLEAN, cpu_tuple_cost : {1}, cpu_operator_cost : {1}]
    /\ \E quals \in RestrictInfoLists, pages \in {0, MaxPages}, tuples \in 0..MaxTuples :
           baserel = [relid |-> 1, baserestrictinfo |-> quals,
                      reltargetlist |-> <<MkVar("int4", 1), MkVar("text", 2)>>,
                      pages |-> pages, tuples |-> tuples, rows |-> tuples,
                      spc_seq_page_cost |-> 1]
    /\ param_info \in ParamInfos
    /\ pathnode = NoPath
    /\ gsplan = NoPlan
    /\ gss = NoScanState
    /\ devprog_cache = <<>>
    /\ acquired = <<>>
    /\ released = <<>>
    /\ phase = "init"
    /\ error = ""
    /\ result = "none"
    /\ plancopy = NoPlan
    /\ kern_run = NoKernRun

(***************************************************************************)
(* Planner callbacks.                                                      *)
(***************************************************************************)
gpuscan_add_scan_path ==
    /\ phase = "init"
    /\ LET q == ClassifyQuals(baserel.baserestrictinfo, baserel.reltargetlist)
           c == cost_gpuscan(guc, baserel, param_info, q.dev_quals, q.host_quals)
       IN pathnode' = [valid |-> TRUE, rows |-> c.rows,
                       startup_cost |-> c.startup_cost, total_cost |-> c.total_cost,
                       dev_quals |-> q.dev_quals, host_quals |-> q.host_quals,
                       dev_attrs |-> q.dev_attrs, host_attrs |-> q.host_attrs]
    /\ phase' = "path"
    /\ UNCHANGED <<plancopy, kern_run, guc, baserel, param_info, gsplan, gss, devprog_cache,
                   acquired, released, error, result>>

gpuscan_create_plan ==
    /\ phase = "path"
    /\ LET host_clauses == extract_actual_clauses(order_qual_clauses(pathnode.host_quals))
           dev_clauses == extract_actual_clauses(order_qual_clauses(pathnode.dev_quals))
           gen == gpuscan_codegen_quals(pathnode.dev_quals)
       IN gsplan' = [valid |-> TRUE, qual |-> host_clauses,
                     scanrelid |-> baserel.relid,
                     kern_source |-> gen.kern_source,
                     extra_flags |-> gen.context.extra_flags,
                     used_params |-> gen.context.used_params,
                     used_vars |-> gen.context.used_vars,
                     dev_clauses |-> dev_clauses,
                     dev_attrs |-> pathnode.dev_attrs,
                     host_attrs |-> pathnode.host_attrs]
    /\ phase' = "plan"
    /\ UNCHANGED <<plancopy, kern_run, guc, baserel, param_info, pathnode, gss, devprog_cache,
                   acquired, released, error, result>>

(***************************************************************************)
(* Executor callbacks.                                                     *)
(***************************************************************************)
\* pgstrom_get_devprog_key: the key of the program registered for
\* (kern_source, extra_flags); an unknown program is registered first.
DevprogLookup(cache, source, flags) ==
    ListIndex(cache, [source |-> source, flags |-> flags])

pgstrom_get_devprog_key(cache, source, flags) ==
    IF DevprogLookup(cache, source, flags) > 0
    THEN [key |-> DevprogLookup(cache, source, flags), cache |-> cache]
    ELSE [key |-> Len(cache) + 1,
          cache |-> Append(cache, [source |-> source, flags |-> flags])]

\* The plan nodes BeginCustomPlan can be handed: the plan and, once made, its copy.
PlanNodes == {"plan"} \cup (IF plancopy.valid THEN {"copy"} ELSE {})

\* A handle is the position of its resource in "acquired"; 0 is NULL.
gpuscan_begin ==
    /\ phase = "plan"
    /\ \E from \in PlanNodes, shm_ok \in BOOLEAN, mq_ok \in BOOLEAN, pb_ok \in BOOLEAN :
         LET node == IF from = "copy" THEN plancopy ELSE gsplan
             shmcontext == IF shm_ok THEN Len(acquired) + 1 ELSE 0
             acq1 == IF shm_ok THEN Append(acquired, "shmcontext") ELSE acquired
             mqueue == IF mq_ok THEN Len(acq1) + 1 ELSE 0
             acq2 == IF mq_ok THEN Append(acq1, "mqueue") ELSE acq1
             parambuf == IF pb_ok THEN Len(acq2) + 1 ELSE 0
             acq3 == IF pb_ok THEN Append(acq2, "parambuf") ELSE acq2
             prog == pgstrom_get_devprog_key(devprog_cache, node.kern_source,
                                             node.extra_flags)
         IN IF shmcontext = 0
            THEN /\ gss' = [gss EXCEPT !.plan = from,
                                       !.scan_mode = GpuScanMode_HeapOnlyScan]
                 /\ error' = "failed to create shared memory context"
                 /\ phase' = "error"
                 /\ UNCHANGED <<acquired, devprog_cache>>
            ELSE IF mqueue = 0
            THEN /\ gss' = [gss EXCEPT !.plan = from,
                                       !.scan_mode = GpuScanMode_HeapOnlyScan,
                                       !.shmcontext = shmcontext]
                 /\ acquired' = acq1
                 /\ error' = "failed to create message queue"
                 /\ phase' = "error"
                 /\ UNCHANGED devprog_cache
            ELSE /\ gss' = [plan |-> from,
                            scan_mode |-> GpuScanMode_HeapOnlyScan,
                            shmcontext |-> shmcontext,
                            mqueue |-> mqueue,
                            parambuf |-> parambuf,
                            dprog_key |-> IF ~node.kern_source.isnull
                                          THEN prog.key ELSE 0]
                 /\ acquired' = acq3
                 /\ devprog_cache' = IF ~node.kern_source.isnull
                                     THEN prog.cache ELSE devprog_cache
                 /\ phase' = "scan"
                 /\ UNCHANGED error
    /\ UNCHANGED <<plancopy, kern_run, guc, baserel, param_info, pathnode, gsplan, released, result>>

\* The body is empty: nothing is dispatched, and the value handed back to the
\* executor is whatever the return register holds.
gpuscan_exec ==
    /\ phase = "scan"
    /\ result' \in {"null slot", "indeterminate slot"}
    /\ UNCHANGED <<plancopy, kern_run, guc, baserel, param_info, pathnode, gsplan, gss, devprog_cache,
                   acquired, released, phase, error>>

NotImplementedReturnsResult(current) ==
    [phase |-> current.phase, error |-> current.error, result |-> "null slot"]

NotImplemented(current) ==
    [phase |-> "error", error |-> "not implemented yet", result |-> "none"]

gpuscan_exec_multi ==
    /\ phase = "scan"
    /\ LET after == NotImplemented([phase |-> phase, error |-> error, result |-> result])
       IN /\ phase' = after.phase
          /\ error' = after.error
          /\ result' = after.result
    /\ UNCHANGED <<plancopy, kern_run, guc, baserel, param_info, pathnode, gsplan, gss, devprog_cache,
                   acquired, released>>

gpuscan_rescan ==
    /\ phase = "scan"
    /\ LET after == NotImplemented([phase |-> phase, error |-> error, result |-> result])
       IN /\ phase' = after.phase
          /\ error' = after.error
          /\ result' = after.result
    /\ UNCHANGED <<plancopy, kern_run, guc, baserel, param_info, pathnode, gsplan, gss, devprog_cache,
                   acquired, released>>

\* The body is empty: nothing is released.
gpuscan_end ==
    /\ phase = "scan"
    /\ phase' = "ended"
    /\ result' = "none"
    /\ UNCHANGED <<plancopy, kern_run, guc, baserel, param_info, pathnode, gsplan, gss, devprog_cache,
                   acquired, released, error>>

(***************************************************************************)
(* gpuscan_copy_plan                                                       *)
(***************************************************************************)
\* What palloc() may hand back: the memory is not cleared, so a field that is
\* never assigned keeps whatever the chunk held.
StaleSource == [NullSource EXCEPT !.isnull = FALSE, !.array_name = "stale"]

UninitializedPlans(from) ==
    {[NoPlan EXCEPT !.kern_source = src] :
         src \in {NullSource, from.kern_source, StaleSource}}

CopyPlanNode(from, newnode) ==
    [newnode EXCEPT !.valid = TRUE,
                    !.qual = from.qual,
                    !.scanrelid = from.scanrelid,
                    !.used_params = from.used_params,
                    !.used_vars = from.used_vars,
                    !.extra_flags = from.extra_flags,
                    !.dev_clauses = from.dev_clauses,
                    !.dev_attrs = from.dev_attrs,
                    !.host_attrs = from.host_attrs]

gpuscan_copy_plan ==
    /\ phase = "plan"
    /\ ~plancopy.valid
    /\ \E newnode \in UninitializedPlans(gsplan) :
           plancopy' = CopyPlanNode(gsplan, newnode)
    /\ UNCHANGED <<kern_run, guc, baserel, param_info, pathnode, gsplan, gss,
                   devprog_cache, acquired, released, phase, error, result>>

(***************************************************************************)
(* The generated kernel gpuscan_qual_cs, as one work-item runs it.         *)
(***************************************************************************)
MaxLanes == 1        \* largest get_global_id(0) and kcs->nrows

\* kern_set_error(!rc.isnull && rc.value != 0 ? ... : ...)
KernSetErrorIgnoresNull(rc) ==
    IF rc.value # 0 THEN "StromError_Success" ELSE "StromError_RowFiltered"

KernSetError(rc) ==
    IF ~rc.isnull /\ rc.value # 0
    THEN "StromError_Success" ELSE "StromError_RowFiltered"

\* "expr" is what the lowered expression gives for the row, "stale" what the
\* local variable rc holds before it is assigned.
QualCsLane(gid, nrows, expr, stale) ==
    LET evaluated == gid < nrows
        rc == IF evaluated THEN expr ELSE [stale EXCEPT !.isnull = TRUE]
    IN [ran |-> TRUE, gid |-> gid, nrows |-> nrows, evaluated |-> evaluated,
        rc |-> rc, status |-> KernSetError(rc)]

kernel_gpuscan_qual_cs ==
    /\ phase = "plan"
    /\ ~gsplan.kern_source.isnull
    /\ \E gid \in 0..MaxLanes, nrows \in 0..MaxLanes, expr \in PgBool, stale \in PgBool :
           kern_run' = QualCsLane(gid, nrows, expr, stale)
    /\ UNCHANGED <<plancopy, guc, baserel, param_info, pathnode, gsplan, gss,
                   devprog_cache, acquired, released, phase, error, result>>

Next ==
    \/ gpuscan_add_scan_path
    \/ gpuscan_create_plan
    \/ gpuscan_begin
    \/ gpuscan_exec
    \/ gpuscan_exec_multi
    \/ gpuscan_rescan
    \/ gpuscan_end

Spec == Init /\ [][Next]_vars

\* One setting of the planner's inputs other than the qualifier list.
InitOnePlan ==
    /\ Init
    /\ guc.enable_gpuscan
    /\ baserel.pages = MaxPages
    /\ baserel.tuples = MaxTuples
    /\ param_info.isnull

\* The plan and its copy handed to the executor.
NextCopy ==
    \/ Next
    \/ gpuscan_copy_plan

SpecCopy == InitOnePlan /\ [][NextCopy]_vars

\* The generated kernel run by the work-items of the device.
NextKernel ==
    \/ gpuscan_add_scan_path
    \/ gpuscan_create_plan
    \/ kernel_gpuscan_qual_cs

SpecKernel == InitOnePlan /\ [][NextKernel]_vars

(***************************************************************************)
(* Properties.                                                             *)
(***************************************************************************)
RECURSIVE SubNodes(_)
SubNodes(node) ==
    {node} \cup UNION {SubNodes(node.args[i]) : i \in 1..Len(node.args)}

NodeHasDeviceMapping(n) ==
    /\ n.type \in DevTypes
    /\ (n.tag = "OpExpr" => n.op \in DevFuncs)

\* Number of entries of a RestrictInfo list that are the input conjunct rid.
Occurrences(quals, rid) == Cardinality({i \in 1..Len(quals) : quals[i].rid = rid})

OrderKept(quals) ==
    \A i \in 1..Len(quals), j \in 1..Len(quals) : i < j => quals[i].rid < quals[j].rid

\* C1: after gpuscan_add_scan_path every conjunct of baserel->baserestrictinfo
\* is in exactly one of dev_quals and host_quals, exactly once (so the two
\* groups together are the input list as a multiset), and inside each group the
\* conjuncts keep the relative order they have in the input list.
C1_Partition ==
    pathnode.valid =>
        LET input == baserel.baserestrictinfo
            both == pathnode.dev_quals \o pathnode.host_quals
        IN /\ Len(both) = Len(input)
           /\ \A i \in 1..Len(input) :
                  /\ Occurrences(pathnode.dev_quals, i)
                     + Occurrences(pathnode.host_quals, i) = 1
                  /\ \E k \in 1..Len(both) : both[k] = input[i]
           /\ \A k \in 1..Len(both) :
                  both[k].rid \in 1..Len(input) /\ both[k] = input[both[k].rid]
           /\ OrderKept(pathnode.dev_quals)
           /\ OrderKept(pathnode.host_quals)

C1_Witness ==
    /\ pathnode.valid
    /\ Len(pathnode.dev_quals) = 2
    /\ pathnode.dev_quals[1].clause # pathnode.dev_quals[2].clause

\* C2: a conjunct goes to dev_quals when every node of its expression tree has
\* a device-side mapping and to host_quals when some node has none; colA > 5
\* with colB LIKE '%x%' gives dev_quals = [colA > 5] and host_quals = [colB LIKE
\* '%x%']; classification raises no error.
C2_Routing ==
    pathnode.valid =>
        /\ \A i \in 1..Len(baserel.baserestrictinfo) :
               LET rinfo == baserel.baserestrictinfo[i]
                   mapped == \A n \in SubNodes(rinfo.clause) : NodeHasDeviceMapping(n)
               IN /\ mapped => Occurrences(pathnode.dev_quals, i) = 1
                  /\ ~mapped => Occurrences(pathnode.host_quals, i) = 1
        /\ (phase = "path" => error = "")
        /\ (baserel.baserestrictinfo = <<MkRestrictInfo(1, 1), MkRestrictInfo(2, 2)>>
               => /\ pathnode.dev_quals = <<MkRestrictInfo(1, 1)>>
                  /\ pathnode.host_quals = <<MkRestrictInfo(2, 2)>>)

C2_Witness ==
    /\ pathnode.valid
    /\ baserel.baserestrictinfo = <<MkRestrictInfo(1, 1), MkRestrictInfo(2, 2)>>
    /\ Len(pathnode.dev_quals) = 1
    /\ Len(pathnode.host_quals) = 1

\* The Const/Param (or Var) leaves of an expression, left to right.
RECURSIVE Leaves(_, _)
Leaves(node, tags) ==
    IF node.tag \in tags THEN <<node>>
    ELSE LET F[i \in 0..Len(node.args)] ==
                 IF i = 0 THEN <<>> ELSE F[i - 1] \o Leaves(node.args[i], tags)
         IN F[Len(node.args)]

QualLeaves(quals, tags) ==
    LET F[i \in 0..Len(quals)] ==
            IF i = 0 THEN <<>> ELSE F[i - 1] \o Leaves(quals[i].clause, tags)
    IN F[Len(quals)]

NoDuplicates(list) ==
    \A i \in 1..Len(list), j \in 1..Len(list) : i # j => list[i] # list[j]

\* "used" lists the distinct entries of "leaves" in first-occurrence order.
FirstOccurrenceOrder(used, leaves) ==
    /\ NoDuplicates(used)
    /\ \A i \in 1..Len(used) : ListIndex(leaves, used[i]) > 0
    /\ \A k \in 1..Len(leaves) : ListIndex(used, leaves[k]) > 0
    /\ \A i \in 1..Len(used), j \in 1..Len(used) :
           i < j => ListIndex(leaves, used[i]) < ListIndex(leaves, used[j])

DefinesOf(source, macro) == SelectSeq(source.defines, LAMBDA d : d.macro = macro)

\* C3: after gpuscan_codegen_quals over a non-empty device group used_params
\* and used_vars hold no two equal entries, in first-occurrence order, indexed
\* 0..n-1; the source has exactly one KPARAM_<i> definition per used_params
\* entry i, reading parameter-buffer slot i, and exactly one KVAR_<i> definition
\* per used_vars entry i; two distinct constants of one type in two conjuncts
\* get KPARAM_0 and KPARAM_1.
C3_Codegen ==
    (gsplan.valid /\ pathnode.dev_quals # <<>>) =>
        LET source == gsplan.kern_source
            kparams == DefinesOf(source, "KPARAM")
            kvars == DefinesOf(source, "KVAR")
        IN /\ ~source.isnull
           /\ FirstOccurrenceOrder(gsplan.used_params,
                                   QualLeaves(pathnode.dev_quals, {"Const", "Param"}))
           /\ FirstOccurrenceOrder(gsplan.used_vars,
                                   QualLeaves(pathnode.dev_quals, {"Var"}))
           /\ Len(source.defines) = Len(kparams) + Len(kvars)
           /\ Len(kparams) = Len(gsplan.used_params)
           /\ \A i \in 1..Len(kparams) :
                  /\ kparams[i].index = i - 1
                  /\ kparams[i].slot = i - 1
                  /\ kparams[i].buffer = "kparams"
                  /\ kparams[i].type_ident = gsplan.used_params[i].type
           /\ Len(kvars) = Len(gsplan.used_vars)
           /\ \A i \in 1..Len(kvars) :
                  /\ kvars[i].index = i - 1
                  /\ kvars[i].type_ident = gsplan.used_vars[i].type
           /\ (pathnode.dev_quals = <<MkRestrictInfo(1, 1), MkRestrictInfo(2, 3)>>
                  => /\ gsplan.used_params = <<MkConst("int4", 5), MkConst("int4", 7)>>
                     /\ kparams[1].index = 0 /\ kparams[2].index = 1)

C3_Witness ==
    /\ gsplan.valid
    /\ pathnode.dev_quals = <<MkRestrictInfo(1, 1), MkRestrictInfo(2, 3)>>
    /\ Len(DefinesOf(gsplan.kern_source, "KPARAM")) = 2
    /\ Len(gsplan.used_vars) = 1

\* The estimate cost_gpuscan gives for the path of this state with
\* enable_gpuscan set to "enabled" and baserel->tuples (and rows) set to "tuples".
EstimateWith(enabled, tuples) ==
    cost_gpuscan([guc EXCEPT !.enable_gpuscan = enabled],
                 [baserel EXCEPT !.tuples = tuples, !.rows = tuples],
                 param_info, pathnode.dev_quals, pathnode.host_quals)

\* C4: for the same groups, statistics and parameter info, startup_cost with
\* enable_gpuscan off is strictly greater than with it on: disable_cost is
\* added to startup_cost, and the run cost (total_cost - startup_cost) is the
\* same in both.
C4_DisablePenalty ==
    pathnode.valid =>
        LET on == EstimateWith(TRUE, baserel.tuples)
            off == EstimateWith(FALSE, baserel.tuples)
            mine == IF guc.enable_gpuscan THEN on ELSE off
        IN /\ pathnode.startup_cost = mine.startup_cost
           /\ pathnode.total_cost = mine.total_cost
           /\ CostLT(on.startup_cost, off.startup_cost)
           /\ off.startup_cost = CostAdd(on.startup_cost, disable_cost)
           /\ off.total_cost = CostAdd(on.total_cost, disable_cost)

C4_Witness ==
    /\ pathnode.valid
    /\ ~guc.enable_gpuscan
    /\ pathnode.dev_quals # <<>>
    /\ pathnode.startup_cost.hi >= disable_cost.hi

\* C5: with everything else fixed, a larger row estimate never gives a smaller
\* total_cost.
C5_MonotonicInRows ==
    pathnode.valid =>
        \A t \in 0..(MaxTuples + 1) :
            LET other == EstimateWith(guc.enable_gpuscan, t).total_cost
            IN /\ t >= baserel.tuples => CostLE(pathnode.total_cost, other)
               /\ t <= baserel.tuples => CostLE(other, pathnode.total_cost)

C5_Witness ==
    /\ pathnode.valid
    /\ baserel.tuples = 1
    /\ pathnode.dev_quals # <<>>
    /\ pathnode.host_quals # <<>>
    /\ CostLT(pathnode.total_cost, EstimateWith(guc.enable_gpuscan, 2).total_cost)
    /\ CostLT(EstimateWith(guc.enable_gpuscan, 0).total_cost, pathnode.total_cost)

StorageScanCost == CostOfFx(Fx(baserel.spc_seq_page_cost) * baserel.pages)

EmptyListGroupsAndSource ==
    /\ pathnode.dev_quals = <<>>
    /\ pathnode.host_quals = <<>>
    /\ (gsplan.valid => /\ gsplan.kern_source.isnull
                        /\ gsplan.used_params = <<>>
                        /\ gsplan.used_vars = <<>>)

\* C6 as amended: for an empty predicate list dev_quals and host_quals are
\* empty and no kernel source is generated (NULL, no used params, no used
\* vars); startup_cost is the device startup charge of 10000, plus disable_cost
\* when enable_gpuscan is off, plus the startup cost of the pushed-down clauses;
\* total_cost is startup_cost plus spc_seq_page_cost * pages plus, per tuple,
\* cpu_tuple_cost / 100 and cpu_tuple_cost and the per-tuple cost of the
\* pushed-down clauses (the selectivity of the empty device group is 1.0).
C6_EmptyListAmended ==
    (pathnode.valid /\ baserel.baserestrictinfo = <<>>) =>
        LET pushed == IF param_info.isnull THEN [startup |-> 0, per_tuple |-> 0]
                      ELSE cost_qual_eval(param_info.ppi_clauses, guc)
            startup == CostAdd(IF guc.enable_gpuscan THEN CostOfFx(0) ELSE disable_cost,
                               CostOfFx(Fx(DevStartupCost) + pushed.startup))
            per_tuple == Fx(guc.cpu_tuple_cost) \div DevParallelism
                         + Fx(guc.cpu_tuple_cost) + pushed.per_tuple
        IN /\ EmptyListGroupsAndSource
           /\ pathnode.startup_cost = startup
           /\ pathnode.total_cost =
                  CostAdd(startup,
                          CostAdd(StorageScanCost, CostOfFx(per_tuple * baserel.tuples)))

C6_Witness ==
    /\ gsplan.valid
    /\ baserel.baserestrictinfo = <<>>
    /\ baserel.pages > 0
    /\ baserel.tuples > 0
    /\ gsplan.kern_source.isnull

\* C6 as stated: for an empty predicate list both groups are empty, no kernel
\* source is generated, and the cost estimate is the storage scan cost only.
C6_EmptyListStorageCostOnly ==
    (pathnode.valid /\ baserel.baserestrictinfo = <<>>) =>
        /\ EmptyListGroupsAndSource
        /\ pathnode.total_cost = StorageScanCost

\* C7: a scan state that gpuscan_begin has returned has a non-NULL shmcontext,
\* mqueue and parambuf.
C7_HandlesNonNull ==
    phase \in {"scan", "ended"} =>
        /\ gss.shmcontext # 0
        /\ gss.mqueue # 0
        /\ gss.parambuf # 0

BeginErrors == {"failed to create shared memory context",
                "failed to create message queue"}

\* C8: when gpuscan_begin raises its error every resource it had acquired has
\* been released exactly once.
C8_ErrorReleasesAcquired ==
    error \in BeginErrors =>
        \A h \in 1..Len(acquired) :
            Cardinality({i \in 1..Len(released) : released[i] = h}) = 1

\* C9: on a begun scan, whatever was called before, gpuscan_exec_multi and
\* gpuscan_rescan can be called, raise "not implemented yet" and return nothing;
\* they leave the scan state, the resources held and the program cache as they
\* were.
C9_NotImplemented ==
    /\ [](phase = "scan" => ENABLED gpuscan_exec_multi /\ ENABLED gpuscan_rescan)
    /\ [][(phase = "scan" /\ (gpuscan_exec_multi \/ gpuscan_rescan)) =>
             /\ error' = "not implemented yet"
             /\ result' = "none"
             /\ phase' = "error"
             /\ gss' = gss
             /\ acquired' = acquired
             /\ released' = released
             /\ devprog_cache' = devprog_cache]_vars

C9_Witness ==
    /\ phase = "error"
    /\ error = "not implemented yet"
    /\ result = "none"
    /\ gss.mqueue # 0

\* C10: once gpuscan_end has run every resource gpuscan_begin acquired has been
\* released, last acquired first, and none is still held.
C10_EndReleasesAll ==
    phase = "ended" =>
        /\ Len(released) = Len(acquired)
        /\ \A i \in 1..Len(released) : released[i] = Len(acquired) + 1 - i

EntryPointNames(source) == {source.kernels[i].name : i \in 1..Len(source.kernels)}

\* The macro KPARAM_<index> / KVAR_<index> is defined by the source, over
\* buffers that are parameters of the kernel using it.
MacroDefinedFor(source, kernel, use) ==
    \E i \in 1..Len(source.defines) :
        LET d == source.defines[i]
        IN /\ d.macro = use.name
           /\ d.index = use.index
           /\ d.buffer \in kernel.args
           /\ (d.toast => "toast" \in kernel.args)

\* C11: in the generated source every identifier the three entry points use is
\* a parameter (or local) of the kernel, a KPARAM_<i>/KVAR_<i> macro the source
\* defines, an entry point, or the column array the source defines; the array
\* the row-to-column kernels pass as the column list is the array the source
\* emits, and that array holds the column numbers of used_vars in index order.
C11_SelfContained ==
    (gsplan.valid /\ ~gsplan.kern_source.isnull) =>
        LET source == gsplan.kern_source
        IN /\ Len(source.kernels) = 3
           /\ \A k \in 1..Len(source.kernels) :
                  LET kernel == source.kernels[k]
                  IN /\ \A use \in kernel.operands :
                         IF use.kind = "macro"
                         THEN MacroDefinedFor(source, kernel, use)
                         ELSE \/ use.name \in kernel.args
                              \/ use.name \in kernel.locals
                              \/ use.name \in EntryPointNames(source)
                              \/ use.name = source.array_name
                     /\ (kernel.projection # "" =>
                             kernel.projection = source.array_name)
           /\ source.array_elems =
                  [i \in 1..Len(gsplan.used_vars) |-> gsplan.used_vars[i].val]

\* C12: a work-item of gpuscan_qual_cs evaluates the expression only when its
\* position is below kcs->nrows; otherwise rc is marked null and nothing is
\* evaluated.  The status written back is StromError_Success only for a
\* position in bounds whose result is not null and true; a null or false
\* result, and every position out of bounds, gives StromError_RowFiltered.
C12_LaneStatus ==
    kern_run.ran =>
        /\ kern_run.evaluated <=> (kern_run.gid < kern_run.nrows)
        /\ (kern_run.gid >= kern_run.nrows => kern_run.rc.isnull)
        /\ kern_run.status \in {"StromError_Success", "StromError_RowFiltered"}
        /\ kern_run.status = "StromError_Success" <=>
               /\ kern_run.gid < kern_run.nrows
               /\ ~kern_run.rc.isnull
               /\ kern_run.rc.value # 0

C12_Witness ==
    /\ kern_run.ran
    /\ kern_run.gid >= kern_run.nrows
    /\ kern_run.rc.value # 0
    /\ kern_run.status = "StromError_RowFiltered"

SamePlanData(a, b) ==
    /\ a.kern_source = b.kern_source
    /\ a.extra_flags = b.extra_flags
    /\ a.used_params = b.used_params
    /\ a.used_vars = b.used_vars
    /\ a.dev_clauses = b.dev_clauses
    /\ a.scanrelid = b.scanrelid
    /\ a.dev_attrs = b.dev_attrs
    /\ a.host_attrs = b.host_attrs

\* C13: the node gpuscan_copy_plan returns has the kern_source, extra_flags,
\* used_params, used_vars, dev_clauses, scanrelid, dev_attrs and host_attrs of
\* the node it copies, and a scan begun from the copy gets the device program
\* key of the original's kernel source (0 when it has none).
C13_CopyKeepsPlan ==
    /\ plancopy.valid => SamePlanData(plancopy, gsplan)
    /\ (phase = "scan" /\ gss.plan = "copy") =>
           IF gsplan.kern_source.isnull
           THEN gss.dprog_key = 0
           ELSE /\ gss.dprog_key \in 1..Len(devprog_cache)
                /\ devprog_cache[gss.dprog_key] =
                       [source |-> gsplan.kern_source, flags |-> gsplan.extra_flags]

====
